---- MODULE Spec2Model ----
(***************************************************************************)
(* Model of bdk-cli's utils.rs: the Kyoto light-client sync session        *)
(* (sync_kyoto_client, trace_logger) and the descriptor derivation         *)
(* functions (generate_descriptor_from_key_by_type,                        *)
(* generate_bip_descriptor_from_key, generate_multipath_descriptor).       *)
(***************************************************************************)
EXTENDS Integers, Sequences, FiniteSets

(* ------------------------------ bounds --------------------------------- *)
\* sync sessions started one after another in one process (REPL)
MaxSessions == 2
\* events the node emits in one session, all three sources together
MaxEvents == 3
\* distinct master keys a key text can encode
MaxKeys == 2

Sessions == 1..MaxSessions
Sources == {"log", "info", "warn"}
None == "none"

VARIABLES
    subscriberInstalled, \* the process-wide tracing subscriber is set
    cur,                 \* number of the latest session called (0: none yet)
    pc,                  \* position of each session in sync_kyoto_client
    err,                 \* the Err value a session returned, or None
    node,                \* the spawned node task of each session
    logger,              \* the spawned trace_logger task of each session
    chan,                \* log/info/warning channels: events not yet received
    emitted,             \* number of events the node sent on each channel
    noneSeen,            \* recv() of a source returned None (channel closed)
    sink,                \* events written to the tracing subscriber, in order
    updateSlot,          \* the one-shot update channel: <<>> or <<update>>
    updateSent,          \* the node has used the one-shot sender
    got,                 \* the local `update` of the session: <<>> or <<update>>
    wallet,              \* the wallet: the updates applied to it, in order
    awaits,              \* times the session awaited update_subscriber
    applies,             \* times the session called wallet.apply_update
    walletAtCall,        \* the wallet when the session was called
    phases,              \* phases the session went through
    endMark,             \* length of the sink when the session returned
    req,                 \* the latest derivation request
    resp,                \* its result
    built                \* the descriptor keys built while serving it

syncVars == <<subscriberInstalled, cur, pc, err, node, logger, chan, emitted,
              noneSeen, sink, updateSlot, updateSent, got, wallet, awaits,
              applies, walletAtCall, phases, endMark>>
deriveVars == <<req, resp, built>>
vars == <<syncVars, deriveVars>>

(* --------------------------- sync session ------------------------------ *)

Terminal == {"Completed", "Failed"}

\* the phase of the spec's state machine a code position belongs to: the
\* session is Running from the spawn of the node and logger tasks on
Phase(p) ==
    CASE p = "Starting" -> "Starting"
      [] p \in {"check", "notrunning", "await", "received", "apply", "tip",
                 "summary", "return"} -> "Running"
      [] OTHER -> p

ErrSetGlobalDefault == "Generic: SetGlobalDefault error"
ErrNodeNotRunning == "Generic: Kyoto node failed to start"
ErrUpdate == "UpdateError"
ErrApply == "Generic: Failed to apply update"

\* mutant: a subscriber that is already set is replaced without an error
set_global_default_Replace(installed) == [ok |-> TRUE, installed |-> TRUE]

\* tracing::subscriber::set_global_default: fails once a default is set
set_global_default(installed) ==
    IF installed THEN [ok |-> FALSE, installed |-> TRUE]
    ELSE [ok |-> TRUE, installed |-> TRUE]

\* requester.is_running()
is_running(n) == n = "running"

\* mutant: the await gives up at once when no value is there
UpdateReady_NoWait(slot, n) == TRUE

\* update_subscriber.update().await: the value if one was sent, an error if
\* the node went away without sending one, pending otherwise
UpdateReady(slot, n) == slot # <<>> \/ n = "stopped"
update(slot) ==
    IF slot # <<>> THEN [ok |-> TRUE, value |-> slot, rest |-> <<>>]
    ELSE [ok |-> FALSE, value |-> <<>>, rest |-> slot]

\* Wallet::apply_update: the update is merged, or rejected whole
apply_update(w, u) ==
    IF u.connects THEN [ok |-> TRUE, wallet |-> Append(w, u.id)]
    ELSE [ok |-> FALSE, wallet |-> w]

\* the level a source's events are forwarded at
Level(src) == IF src = "warn" THEN "WARN" ELSE "INFO"

\* an event of the tracing subscriber: who wrote it, its level, the format
\* string of the macro and the number formatted into it
Event(src, level, msg, n) == [src |-> src, n |-> n, level |-> level, msg |-> msg]

\* tracing::info!("{log}"), tracing::info!("{info}"), tracing::warn!("{warn}")
ForwardedEvent(src, n) ==
    Event(src, Level(src),
          CASE src = "log" -> "{log}" [] src = "info" -> "{info}" [] OTHER -> "{warn}", n)

\* the events sync_kyoto_client writes itself
EvNotRunning == Event("session", "ERROR", "Kyoto node is not running", 0)
EvRunning == Event("session", "INFO", "Kyoto node is running", 0)
EvReceived == Event("session", "INFO", "Received update: applying to wallet", 0)
EvChainTip(w) ==
    Event("session", "INFO", "Chain tip: {}, Transactions: {}, Balance: {}", Len(w))
EvSyncCompleted(w) ==
    Event("session", "INFO", "Sync completed: tx_count={}, balance={}", Len(w))

\* what the session writes around the is_running check
CheckEvents(running) == IF running THEN <<EvRunning>> ELSE <<EvNotRunning>>

\* mutant: the newest event is received first
recv_Last(q) ==
    IF q # <<>> THEN [some |-> TRUE, value |-> q[Len(q)], rest |-> SubSeq(q, 1, Len(q) - 1)]
    ELSE [some |-> FALSE, value |-> 0, rest |-> q]

\* recv() on a channel: ready with Some(head), ready with None once the
\* sender is gone and the queue is drained, pending otherwise
RecvReady(q, n) == q # <<>> \/ n = "stopped"
recv(q) == IF q # <<>> THEN [some |-> TRUE, value |-> Head(q), rest |-> Tail(q)]
           ELSE [some |-> FALSE, value |-> 0, rest |-> q]

\* mutant: the loop breaks when a source is closed
AfterBranch_BreakOnNone(r) == IF r.some THEN "looping" ELSE "exited"

\* what the loop of trace_logger does after a branch of select! has run
AfterBranch(r) == "looping"

\* mutant: the logger task is aborted when the session returns
LoggerAlive_UntilReturn(lg, p) == lg = "looping" /\ p \notin {"Completed", "Failed"}

\* whether the spawned logger task is still scheduled, given the session
LoggerAlive(lg, p) == lg = "looping"

\* mutant: the is_running check is skipped
AfterCheck_Ignore(running) == "await"

\* where the session goes after the is_running check
AfterCheck(running) == IF running THEN "await" ELSE "notrunning"

\* where the session goes after update().await?
AfterAwait(r) == IF r.ok THEN "received" ELSE "Failed"

\* mutant: a failed apply is tried again
AfterApply_Retry(r) == IF r.ok THEN "tip" ELSE "apply"

\* where the session goes after apply_update(...).map_err(...)?
AfterApply(r) == IF r.ok THEN "tip" ELSE "Failed"

\* the session writes the events evs and goes on to position p
Step(s, p, evs) ==
    /\ pc' = [pc EXCEPT ![s] = p]
    /\ phases' = [phases EXCEPT ![s] =
                    IF Phase(p) = Phase(pc[s]) THEN @ ELSE Append(@, Phase(p))]
    /\ sink' = [sink EXCEPT ![s] = @ \o evs]
    /\ endMark' = [endMark EXCEPT ![s] =
                    IF p \in Terminal THEN Len(sink[s] \o evs) ELSE @]

\* sync_kyoto_client is called: the client is taken apart
Call(s) ==
    /\ s = cur + 1
    /\ IF cur = 0 THEN TRUE ELSE pc[cur] \in Terminal
    /\ pc[s] = "idle"
    /\ cur' = s
    /\ pc' = [pc EXCEPT ![s] = "Starting"]
    /\ phases' = [phases EXCEPT ![s] = <<"Starting">>]
    /\ walletAtCall' = [walletAtCall EXCEPT ![s] = wallet]
    /\ UNCHANGED <<updateSent, subscriberInstalled, err, node, logger, chan, emitted, noneSeen,
                   sink, updateSlot, got, wallet, awaits, applies, endMark>>

\* the subscriber is installed, then the node and the logger are spawned
Install(s) ==
    /\ pc[s] = "Starting"
    /\ LET r == set_global_default(subscriberInstalled) IN
        /\ subscriberInstalled' = r.installed
        /\ IF r.ok
           THEN /\ node' = [node EXCEPT ![s] = "running"]
                /\ logger' = [logger EXCEPT ![s] = "looping"]
                /\ Step(s, "check", <<>>)
                /\ err' = err
           ELSE /\ Step(s, "Failed", <<>>)
                /\ err' = [err EXCEPT ![s] = ErrSetGlobalDefault]
                /\ UNCHANGED <<node, logger>>
    /\ UNCHANGED <<updateSent, cur, chan, emitted, noneSeen, updateSlot, got, wallet,
                   awaits, applies, walletAtCall>>

\* the variables no step of the session's own control flow touches
SessionFrame == <<updateSent, subscriberInstalled, cur, node, logger, chan, emitted,
                  noneSeen, walletAtCall>>

\* if !requester.is_running() { tracing::error!(..) } else: tracing::info!(..)
\* the line is written; the tasks spawned before go on in the meantime
CheckRunning(s) ==
    /\ pc[s] = "check"
    /\ LET running == is_running(node[s]) IN
        Step(s, AfterCheck(running), CheckEvents(running))
    /\ UNCHANGED <<SessionFrame, err, updateSlot, got, wallet, awaits, applies>>

\* return Err(Error::Generic("Kyoto node failed to start"))
ReturnNotRunning(s) ==
    /\ pc[s] = "notrunning"
    /\ Step(s, "Failed", <<>>)
    /\ err' = [err EXCEPT ![s] = ErrNodeNotRunning]
    /\ UNCHANGED <<SessionFrame, updateSlot, got, wallet, awaits, applies>>

\* let update = update_subscriber.update().await?;
AwaitUpdate(s) ==
    /\ pc[s] = "await"
    /\ UpdateReady(updateSlot[s], node[s])
    /\ LET r == update(updateSlot[s])
           p == AfterAwait(r) IN
        /\ Step(s, p, <<>>)
        /\ awaits' = [awaits EXCEPT ![s] = @ + 1]
        /\ got' = [got EXCEPT ![s] = r.value]
        /\ updateSlot' = [updateSlot EXCEPT ![s] = r.rest]
        /\ err' = [err EXCEPT ![s] = IF p = "Failed" THEN ErrUpdate ELSE @]
    /\ UNCHANGED <<SessionFrame, wallet, applies>>

\* tracing::info!("Received update: applying to wallet");
LogReceived(s) ==
    /\ pc[s] = "received"
    /\ Step(s, "apply", <<EvReceived>>)
    /\ UNCHANGED <<SessionFrame, err, updateSlot, got, wallet, awaits, applies>>

\* wallet.apply_update(update).map_err(..)?;
ApplyUpdate(s) ==
    /\ pc[s] = "apply"
    /\ LET r == apply_update(wallet, Head(got[s]))
           p == AfterApply(r) IN
        /\ Step(s, p, <<>>)
        /\ wallet' = r.wallet
        /\ applies' = [applies EXCEPT ![s] = @ + 1]
        /\ err' = [err EXCEPT ![s] = IF p = "Failed" THEN ErrApply ELSE @]
    /\ UNCHANGED <<SessionFrame, updateSlot, got, awaits>>

\* tracing::info!("Chain tip: {}, Transactions: {}, Balance: {}", ..);
LogChainTip(s) ==
    /\ pc[s] = "tip"
    /\ Step(s, "summary", <<EvChainTip(wallet)>>)
    /\ UNCHANGED <<SessionFrame, err, updateSlot, got, wallet, awaits, applies>>

\* tracing::info!("Sync completed: tx_count={}, balance={}", ..);
LogSyncCompleted(s) ==
    /\ pc[s] = "summary"
    /\ Step(s, "return", <<EvSyncCompleted(wallet)>>)
    /\ UNCHANGED <<SessionFrame, err, updateSlot, got, wallet, awaits, applies>>

\* Ok(())
ReturnOk(s) ==
    /\ pc[s] = "return"
    /\ Step(s, "Completed", <<>>)
    /\ UNCHANGED <<SessionFrame, err, updateSlot, got, wallet, awaits, applies>>

\* one turn of the loop of trace_logger: the branch of source src is ready
LoggerRecv(s, src) ==
    /\ LoggerAlive(logger[s], pc[s])
    /\ RecvReady(chan[s][src], node[s])
    /\ LET r == recv(chan[s][src]) IN
        /\ chan' = [chan EXCEPT ![s][src] = r.rest]
        /\ sink' = [sink EXCEPT ![s] =
                      IF r.some
                      THEN Append(@, ForwardedEvent(src, r.value))
                      ELSE @]
        /\ noneSeen' = [noneSeen EXCEPT ![s][src] = @ \/ ~r.some]
        /\ logger' = [logger EXCEPT ![s] = AfterBranch(r)]
    /\ UNCHANGED <<updateSent, subscriberInstalled, cur, pc, err, node, emitted, updateSlot, got,
                   wallet, awaits, applies, walletAtCall, phases, endMark>>

EventsEmitted(s) == emitted[s]["log"] + emitted[s]["info"] + emitted[s]["warn"]

\* the node task sends an event on one of its channels
NodeEmit(s, src) ==
    /\ node[s] = "running"
    /\ EventsEmitted(s) < MaxEvents
    /\ emitted' = [emitted EXCEPT ![s][src] = @ + 1]
    /\ chan' = [chan EXCEPT ![s][src] = Append(@, emitted[s][src] + 1)]
    /\ UNCHANGED <<updateSent, subscriberInstalled, cur, pc, err, node, logger, noneSeen, sink,
                   updateSlot, got, wallet, awaits, applies, walletAtCall, phases,
                   endMark>>

\* the node task sends the wallet update; it may or may not connect
NodeSendUpdate(s, connects) ==
    /\ node[s] = "running"
    /\ ~updateSent[s]
    /\ updateSent' = [updateSent EXCEPT ![s] = TRUE]
    /\ updateSlot' = [updateSlot EXCEPT ![s] = <<[id |-> s, connects |-> connects]>>]
    /\ UNCHANGED <<subscriberInstalled, cur, pc, err, node, logger, chan, emitted,
                   noneSeen, sink, got, wallet, awaits, applies, walletAtCall, phases,
                   endMark>>

\* the node task ends: its senders are dropped
NodeStop(s) ==
    /\ node[s] = "running"
    /\ node' = [node EXCEPT ![s] = "stopped"]
    /\ UNCHANGED <<updateSent, subscriberInstalled, cur, pc, err, logger, chan, emitted, noneSeen,
                   sink, updateSlot, got, wallet, awaits, applies, walletAtCall, phases,
                   endMark>>

SyncInit ==
    /\ subscriberInstalled = FALSE
    /\ cur = 0
    /\ pc = [s \in Sessions |-> "idle"]
    /\ err = [s \in Sessions |-> None]
    /\ node = [s \in Sessions |-> "unspawned"]
    /\ logger = [s \in Sessions |-> "unspawned"]
    /\ chan = [s \in Sessions |-> [src \in Sources |-> <<>>]]
    /\ emitted = [s \in Sessions |-> [src \in Sources |-> 0]]
    /\ noneSeen = [s \in Sessions |-> [src \in Sources |-> FALSE]]
    /\ sink = [s \in Sessions |-> <<>>]
    /\ updateSlot = [s \in Sessions |-> <<>>]
    /\ updateSent = [s \in Sessions |-> FALSE]
    /\ got = [s \in Sessions |-> <<>>]
    /\ wallet = <<>>
    /\ awaits = [s \in Sessions |-> 0]
    /\ applies = [s \in Sessions |-> 0]
    /\ walletAtCall = [s \in Sessions |-> <<>>]
    /\ phases = [s \in Sessions |-> <<>>]
    /\ endMark = [s \in Sessions |-> -1]

(* ------------------------ descriptor derivation ------------------------ *)

\* Network, as passed by the caller, and its to_string()
Networks == {"bitcoin", "testnet"}

\* DescriptorType
DescriptorTypes == {"Bip44", "Bip49", "Bip84", "Bip86"}

\* script_type: u8, as passed to generate_multipath_descriptor
ScriptTypeCodes == {44, 49, 84, 86}

\* A key text is base58check text: its encoding is sound or not ("bad": wrong
\* checksum or truncated), and it carries version bytes and key material.
\* Key material is named by the number of the master key it belongs to.
Versions == {"xprv", "tprv", "xpub", "tpub"}
KeyTexts == [enc : {"ok", "bad"}, version : Versions, id : 1..MaxKeys]

Err(kind, msg) == [ok |-> FALSE, kind |-> kind, msg |-> msg]

\* mutant: the key text is read without checking its encoding
parse_Xpriv_Unchecked(key) ==
    IF key.version = "xprv"
    THEN [ok |-> TRUE, secret |-> TRUE, network |-> "Main", id |-> key.id, child |-> <<>>]
    ELSE IF key.version = "tprv"
    THEN [ok |-> TRUE, secret |-> TRUE, network |-> "Test", id |-> key.id, child |-> <<>>]
    ELSE Err("UnknownVersion", key.version)

\* str::parse::<Xpriv>(): base58check-decodes, then reads the version bytes
parse_Xpriv(key) ==
    IF key.enc # "ok" THEN Err("Base58", "decode")
    ELSE IF key.version = "xprv"
    THEN [ok |-> TRUE, secret |-> TRUE, network |-> "Main", id |-> key.id, child |-> <<>>]
    ELSE IF key.version = "tprv"
    THEN [ok |-> TRUE, secret |-> TRUE, network |-> "Test", id |-> key.id, child |-> <<>>]
    ELSE Err("UnknownVersion", key.version)

\* str::parse::<Xpub>()
parse_Xpub(key) ==
    IF key.enc # "ok" THEN Err("Base58", "decode")
    ELSE IF key.version = "xpub"
    THEN [ok |-> TRUE, secret |-> FALSE, network |-> "Main", id |-> key.id, child |-> <<>>]
    ELSE IF key.version = "tpub"
    THEN [ok |-> TRUE, secret |-> FALSE, network |-> "Test", id |-> key.id, child |-> <<>>]
    ELSE Err("UnknownVersion", key.version)

\* Xpub::from_priv
from_priv(xprv) == [xprv EXCEPT !.secret = FALSE]

\* Display of Xpriv / Xpub: the version bytes follow the key's network
key_to_string(k) ==
    [enc |-> "ok",
     version |-> IF k.secret THEN (IF k.network = "Main" THEN "xprv" ELSE "tprv")
                 ELSE (IF k.network = "Main" THEN "xpub" ELSE "tpub"),
     id |-> k.id,
     child |-> k.child]

\* the four bytes of a key's identifier: a stand-in for the leading bytes of
\* hash160 of the public key, different for different key material
XpubIdentifier(k) ==
    <<(17 * k.id + 3 * Len(k.child)) % 256, (29 * k.id + 101) % 256,
      (113 * k.id + 7) % 256, (211 * k.id + 58) % 256>>

\* Xpriv::fingerprint(&secp) and Xpub::fingerprint(): of the key itself
fingerprint(k) == XpubIdentifier(k)

HexDigits == <<"0", "1", "2", "3", "4", "5", "6", "7", "8", "9",
               "a", "b", "c", "d", "e", "f">>

\* Fingerprint::to_string(): eight lower-case hex digits
fingerprint_to_string(fp) ==
    <<HexDigits[(fp[1] \div 16) + 1], HexDigits[(fp[1] % 16) + 1],
      HexDigits[(fp[2] \div 16) + 1], HexDigits[(fp[2] % 16) + 1],
      HexDigits[(fp[3] \div 16) + 1], HexDigits[(fp[3] % 16) + 1],
      HexDigits[(fp[4] \div 16) + 1], HexDigits[(fp[4] % 16) + 1]>>

\* the text of a path segment: a number and a hardened marker ("", "h" or "'")
Seg(num, mark) == [num |-> num, mark |-> mark]

\* the largest index a child number takes (2^31 - 1)
MaxChildIndex == 2147483647

\* DerivationPath::from_str: an optional leading m/, then one child number
\* per segment, hardened when the segment ends in h or '
DerivationPath_from_str(segs) ==
    IF \E i \in DOMAIN segs : segs[i].num > MaxChildIndex
    THEN Err("InvalidChildNumber", "path")
    ELSE [ok |-> TRUE,
          path |-> [i \in DOMAIN segs |->
                      [index |-> segs[i].num, hardened |-> segs[i].mark # ""]]]

\* Display of a child number, as the descriptor key prints it
child_to_string(c) == Seg(c.index, IF c.hardened THEN "'" ELSE "")

path_to_string(path) == [i \in DOMAIN path |-> child_to_string(path[i])]

\* generate_descriptor_from_key_by_type: the path text of each type
derivation_path_of(descriptor_type) ==
    CASE descriptor_type = "Bip44" -> <<Seg(44, "h"), Seg(1, "h"), Seg(0, "h")>>
      [] descriptor_type = "Bip49" -> <<Seg(49, "h"), Seg(1, "h"), Seg(0, "h")>>
      [] descriptor_type = "Bip84" -> <<Seg(84, "h"), Seg(1, "h"), Seg(0, "h")>>
      [] descriptor_type = "Bip86" -> <<Seg(86, "h"), Seg(1, "h"), Seg(0, "h")>>

\* format!("{branch}") / change.to_string()
branch_to_string(branch) == <<Seg(branch, "")>>

\* mutant: the origin takes the whole path, branch included
desc_xprv_FullOrigin(fp, derivation_path, xprv, branch_path) ==
    [origin |-> <<fp, derivation_path \o branch_path>>,
     xkey |-> xprv,
     derivation_path |-> branch_path,
     wildcard |-> "Unhardened"]

\* DescriptorXKey { origin, xkey, derivation_path, wildcard } of
\* generate_bip_descriptor_from_key
desc_xprv(fp, derivation_path, xprv, branch_path) ==
    [origin |-> <<fp, derivation_path>>,
     xkey |-> xprv,
     derivation_path |-> branch_path,
     wildcard |-> "Unhardened"]

\* DescriptorXKey { .. } of generate_multipath_descriptor
desc_xpub(fp, derivation_path, xpub, branch_path) ==
    [origin |-> <<fp, derivation_path>>,
     xkey |-> xpub,
     derivation_path |-> branch_path,
     wildcard |-> "Unhardened"]

\* number of trailing unhardened steps of a path
RECURSIVE TrailingNormal(_)
TrailingNormal(path) ==
    IF path = <<>> THEN 0
    ELSE IF path[Len(path)].hardened THEN 0
    ELSE 1 + TrailingNormal(SubSeq(path, 1, Len(path) - 1))

\* into_descriptor_key(..).extract(&secp): the public descriptor key of a
\* secret one (hardened steps of its own path are derived and move into the
\* origin), and the key map from the public key to the secret key
extract(desc_secret) ==
    LET dp == desc_secret.derivation_path
        cut == Len(dp) - TrailingNormal(dp)
        hardened_path == SubSeq(dp, 1, cut)
        unhardened_path == SubSeq(dp, cut + 1, Len(dp))
        derived == [desc_secret.xkey EXCEPT !.child = @ \o hardened_path]
        desc_key == [origin |-> <<desc_secret.origin[1],
                                  desc_secret.origin[2] \o hardened_path>>,
                     xkey |-> from_priv(derived),
                     derivation_path |-> unhardened_path,
                     wildcard |-> desc_secret.wildcard]
    IN [desc_key |-> desc_key, keymap |-> {<<desc_key, desc_secret>>}]

\* Display of a descriptor key: [fingerprint/origin path]key/path/*
desc_key_to_string(k) ==
    [origin_fp |-> fingerprint_to_string(k.origin[1]),
     origin_path |-> path_to_string(k.origin[2]),
     key |-> key_to_string(k.xkey),
     path |-> path_to_string(k.derivation_path),
     wildcard |-> CASE k.wildcard = "Unhardened" -> "/*"
                    [] k.wildcard = "Hardened" -> "/*h"
                    [] OTHER -> ""]

\* mutant: the nested segwit type loses its sh wrapper
new_descriptor_NoShWrap(descriptor_type, desc_key) ==
    [wrapper |-> CASE descriptor_type = "Bip84" -> "wpkh"
                   [] descriptor_type = "Bip86" -> "tr"
                   [] descriptor_type = "Bip49" -> "wpkh"
                   [] descriptor_type = "Bip44" -> "pkh",
     key |-> desc_key,
     tree |-> <<>>]

\* Descriptor::new_wpkh / new_tr(.., None) / new_sh_wpkh / new_pkh; the
\* script tree is empty: new_tr is given None, the others have none
new_descriptor(descriptor_type, desc_key) ==
    [wrapper |-> CASE descriptor_type = "Bip84" -> "wpkh"
                   [] descriptor_type = "Bip86" -> "tr"
                   [] descriptor_type = "Bip49" -> "sh(wpkh"
                   [] descriptor_type = "Bip44" -> "pkh",
     key |-> desc_key,
     tree |-> <<>>]

\* the descriptor checksum: a stand-in that depends on the text it covers
checksum(wrapper, keytext) ==
    ((CASE wrapper = "pkh" -> 1 [] wrapper = "sh(wpkh" -> 2
        [] wrapper = "wpkh" -> 3 [] OTHER -> 4)
       + keytext.origin_path[1].num + keytext.key.id
       + (IF keytext.key.version \in {"xprv", "tprv"} THEN 16 ELSE 0)
       + 7 * keytext.path[1].num) % 32

\* Descriptor::to_string(): wrapper(key)#checksum
descriptor_to_string(d) ==
    LET kt == desc_key_to_string(d.key)
    IN [wrapper |-> d.wrapper, key |-> kt, tree |-> d.tree,
        checksum |-> checksum(d.wrapper, kt)]

\* Descriptor::to_string_with_secret(&keymap): keys found in the key map
\* are printed as their secret key
descriptor_to_string_with_secret(d, keymap) ==
    LET found == {kv \in keymap : kv[1] = d.key}
        kt == IF found = {} THEN desc_key_to_string(d.key)
              ELSE desc_key_to_string((CHOOSE kv \in found : TRUE)[2])
    IN [wrapper |-> d.wrapper, key |-> kt, tree |-> d.tree,
        checksum |-> checksum(d.wrapper, kt)]

\* the closure make_desc_key of generate_bip_descriptor_from_key
make_desc_key(fp, derivation_path, xprv, descriptor_type, branch) ==
    LET branch_path == DerivationPath_from_str(branch_to_string(branch)) IN
    IF ~branch_path.ok THEN [ok |-> FALSE, err |-> Err("InvalidDerivationPath", "DerivationPath Error"), keys |-> <<>>]
    ELSE
    LET desc_secret == desc_xprv(fp, derivation_path, xprv, branch_path.path)
        ex == extract(desc_secret)
        public_descriptor == new_descriptor(descriptor_type, ex.desc_key)
        private_descriptor == new_descriptor(descriptor_type, ex.desc_key)
    IN [ok |-> TRUE,
        public |-> descriptor_to_string(public_descriptor),
        private |-> descriptor_to_string_with_secret(private_descriptor, ex.keymap),
        keys |-> <<desc_secret, ex.desc_key>>]

NoKeys == [external |-> <<>>, internal |-> <<>>]

\* generate_bip_descriptor_from_key
generate_bip_descriptor_from_key(network, key, derivation_path_str, descriptor_type) ==
    LET derivation_path == DerivationPath_from_str(derivation_path_str) IN
    IF ~derivation_path.ok
    THEN [resp |-> Err("InvalidDerivationPath", "DerivationPath Error"), built |-> NoKeys]
    ELSE
    LET xprv == parse_Xpriv(key) IN
    IF ~xprv.ok
    THEN [resp |-> Err("InvalidXprv", "Invalid xprv"), built |-> NoKeys]
    ELSE
    LET fp == fingerprint(xprv)
        ext == make_desc_key(fp, derivation_path.path, xprv, descriptor_type, 0)
    IN
    IF ~ext.ok THEN [resp |-> ext.err, built |-> NoKeys]
    ELSE
    LET int == make_desc_key(fp, derivation_path.path, xprv, descriptor_type, 1) IN
    IF ~int.ok THEN [resp |-> int.err, built |-> [external |-> ext.keys, internal |-> <<>>]]
    ELSE
    [resp |-> [ok |-> TRUE,
               type |-> descriptor_type,
               external |-> [public |-> ext.public, private |-> ext.private],
               internal |-> [public |-> int.public, private |-> int.private],
               fingerprint |-> fingerprint_to_string(fp),
               network |-> network],
     built |-> [external |-> ext.keys, internal |-> int.keys]]

\* generate_descriptor_from_key_by_type
generate_descriptor_from_key_by_type(network, key, descriptor_type) ==
    generate_bip_descriptor_from_key(network, key,
                                     derivation_path_of(descriptor_type), descriptor_type)

\* mutant: taproot is let through as well
multipath_supported_AlsoTaproot(script_type) == script_type \in {84, 86}

\* if script_type != 84 { return Err(..) }
multipath_supported(script_type) == script_type = 84

ErrOnlyBip84 == Err("Generic", "Only BIP84 is supported for multipath at the moment.")

\* the closure make_desc of generate_multipath_descriptor
make_desc(fp, derivation_path, xpub, change) ==
    LET branch_path == DerivationPath_from_str(branch_to_string(change)) IN
    IF ~branch_path.ok THEN [ok |-> FALSE, err |-> Err("InvalidDerivationPath", "path"), keys |-> <<>>]
    ELSE
    LET desc_key == desc_xpub(fp, derivation_path, xpub, branch_path.path)
        descriptor == new_descriptor("Bip84", desc_key)
    IN [ok |-> TRUE, desc |-> descriptor_to_string(descriptor), keys |-> <<desc_key>>]

\* generate_multipath_descriptor
generate_multipath_descriptor(network, script_type, key) ==
    IF ~multipath_supported(script_type)
    THEN [resp |-> ErrOnlyBip84, built |-> NoKeys]
    ELSE
    LET xpub == parse_Xpub(key) IN
    IF ~xpub.ok
    THEN [resp |-> Err("InvalidXpub", "Invalid xpub"), built |-> NoKeys]
    ELSE
    LET derivation_path == DerivationPath_from_str(<<Seg(84, "h"), Seg(1, "h"), Seg(0, "h")>>) IN
    IF ~derivation_path.ok
    THEN [resp |-> Err("InvalidDerivationPath", "path"), built |-> NoKeys]
    ELSE
    LET fp == fingerprint(xpub)
        ext == make_desc(fp, derivation_path.path, xpub, 0)
    IN
    IF ~ext.ok THEN [resp |-> ext.err, built |-> NoKeys]
    ELSE
    LET int == make_desc(fp, derivation_path.path, xpub, 1) IN
    IF ~int.ok THEN [resp |-> int.err, built |-> [external |-> ext.keys, internal |-> <<>>]]
    ELSE
    [resp |-> [ok |-> TRUE,
               type |-> "bip84-multipath",
               external |-> ext.desc,
               internal |-> int.desc,
               fingerprint |-> fingerprint_to_string(fp),
               network |-> network],
     built |-> [external |-> ext.keys, internal |-> int.keys]]

NoRequest == [op |-> "none", ok |-> FALSE]

DeriveIdle ==
    /\ req = NoRequest
    /\ resp = NoRequest
    /\ built = NoKeys

Init == SyncInit /\ DeriveIdle

\* a caller asks for the descriptors of a key by type
DeriveFromKey(network, key, descriptor_type) ==
    LET r == generate_descriptor_from_key_by_type(network, key, descriptor_type) IN
    /\ req' = [op |-> "from_key", network |-> network, key |-> key,
               type |-> descriptor_type]
    /\ resp' = r.resp
    /\ built' = r.built

\* a caller asks for the multipath descriptors of a public key
DeriveMultipath(network, script_type, key) ==
    LET r == generate_multipath_descriptor(network, script_type, key) IN
    /\ req' = [op |-> "multipath", network |-> network, key |-> key,
               type |-> script_type]
    /\ resp' = r.resp
    /\ built' = r.built

NextDerive ==
    \/ \E n \in Networks, k \in KeyTexts, ty \in DescriptorTypes :
          DeriveFromKey(n, k, ty) /\ UNCHANGED syncVars
    \/ \E n \in Networks, k \in KeyTexts, st \in ScriptTypeCodes :
          DeriveMultipath(n, st, k) /\ UNCHANGED syncVars

SpecDerive == Init /\ [][NextDerive]_vars

(* ------------------------------ system --------------------------------- *)

Next ==
    \/ \E s \in Sessions : Call(s) /\ UNCHANGED deriveVars
    \/ \E s \in Sessions : Install(s) /\ UNCHANGED deriveVars
    \/ \E s \in Sessions : CheckRunning(s) /\ UNCHANGED deriveVars
    \/ \E s \in Sessions : ReturnNotRunning(s) /\ UNCHANGED deriveVars
    \/ \E s \in Sessions : AwaitUpdate(s) /\ UNCHANGED deriveVars
    \/ \E s \in Sessions : LogReceived(s) /\ UNCHANGED deriveVars
    \/ \E s \in Sessions : ApplyUpdate(s) /\ UNCHANGED deriveVars
    \/ \E s \in Sessions : LogChainTip(s) /\ UNCHANGED deriveVars
    \/ \E s \in Sessions : LogSyncCompleted(s) /\ UNCHANGED deriveVars
    \/ \E s \in Sessions : ReturnOk(s) /\ UNCHANGED deriveVars
    \/ \E s \in Sessions, src \in Sources : LoggerRecv(s, src) /\ UNCHANGED deriveVars
    \/ \E s \in Sessions, src \in Sources : NodeEmit(s, src) /\ UNCHANGED deriveVars
    \/ \E s \in Sessions, c \in BOOLEAN : NodeSendUpdate(s, c) /\ UNCHANGED deriveVars
    \/ \E s \in Sessions : NodeStop(s) /\ UNCHANGED deriveVars

Spec == Init /\ [][Next]_vars

(* ------------------------ sync session: claims ------------------------- *)

Range(f) == {f[i] : i \in DOMAIN f}

\* the events of source src in the sink of session s, in sink order
RECURSIVE OfSource(_, _)
OfSource(q, src) ==
    IF q = <<>> THEN <<>>
    ELSE IF Head(q).src = src THEN <<Head(q).n>> \o OfSource(Tail(q), src)
    ELSE OfSource(Tail(q), src)

UpTo(n) == [i \in 1..n |-> i]

\* the lines of a sink that trace_logger forwarded, in sink order
IsForwarded(e) == e.src \in Sources
Forwarded(q) == SelectSeq(q, IsForwarded)

\* the one-shot update source has resolved: a value was sent or the sender is gone
Resolved(s) == updateSent[s] \/ node[s] = "stopped"

ReachedRunning(s) == "Running" \in Range(phases[s])

\* C1 (as claimed): a session returns Ok only after the update was received
\* and applied to the wallet, and every session that has returned went
\* Starting -> Running -> Completed or Starting -> Running -> Failed.
C1_OnlyPathToTerminal ==
    \A s \in Sessions :
        pc[s] \in Terminal =>
            /\ phases[s] \in {<<"Starting", "Running", "Completed">>,
                            <<"Starting", "Running", "Failed">>}
            /\ pc[s] = "Completed" =>
                  (got[s] # <<>> /\ applies[s] = 1 /\ s \in Range(wallet))

\* C2: within one session the update source is awaited at most once and
\* apply_update is called at most once, whatever events interleave.
C2_AwaitAndApplyAtMostOnce ==
    \A s \in Sessions : awaits[s] <= 1 /\ applies[s] <= 1

C2_Witness ==
    \E s \in Sessions :
        awaits[s] = 1 /\ applies[s] = 1 /\ Len(Forwarded(sink[s])) >= 2

\* C3: when is_running() is false at the check, or the update source ends
\* without a value, the session returns an error at that step, with
\* apply_update never called and the wallet as it was at the call.
C3_FailedWithoutApply ==
    [][\A s \in Sessions :
        /\ (pc[s] = "check" /\ ~is_running(node[s]) /\ pc'[s] # pc[s])
              => pc'[s] = "notrunning"
        /\ (pc[s] = "notrunning" /\ pc'[s] # pc[s])
              => err'[s] = ErrNodeNotRunning
        /\ (pc[s] = "await" /\ updateSlot[s] = <<>> /\ node[s] = "stopped"
              /\ pc'[s] # pc[s]) => err'[s] = ErrUpdate
        /\ (err[s] = None /\ err'[s] \in {ErrNodeNotRunning, ErrUpdate})
              => (pc'[s] = "Failed" /\ applies'[s] = 0 /\ wallet' = walletAtCall[s])
      ]_vars

C3_Witness ==
    \E s \in Sessions :
        err[s] = ErrUpdate /\ pc[s] = "Failed" /\ awaits[s] = 1 /\ applies[s] = 0

\* C4: a failed apply_update makes the session Failed with the apply error,
\* after exactly one apply, and the logger task goes on forwarding events.
C4_ApplyFailure ==
    \A s \in Sessions :
        err[s] = ErrApply =>
            /\ pc[s] = "Failed"
            /\ applies[s] = 1
            /\ logger[s] = "looping"
            /\ \A src \in Sources :
                  RecvReady(chan[s][src], node[s]) => ENABLED LoggerRecv(s, src)

C4_Witness ==
    \E s \in Sessions :
        /\ err[s] = ErrApply /\ endMark[s] >= 0 /\ Len(sink[s]) > endMark[s]
        /\ sink[s][endMark[s]] = EvReceived
        /\ IsForwarded(sink[s][Len(sink[s])])

\* C5: while the node runs and has not sent the update, a session that has
\* reached Running is still Running and has no error, however many events
\* were delivered.
C5_StaysRunning ==
    \A s \in Sessions :
        (ReachedRunning(s) /\ ~Resolved(s)) =>
            (Phase(pc[s]) = "Running" /\ err[s] = None)

C5_Witness ==
    \E s \in Sessions :
        pc[s] = "await" /\ ~Resolved(s) /\ Len(Forwarded(sink[s])) >= 3

\* C6: for each source, the events forwarded so far followed by the events
\* still in the channel are exactly the events sent, in the order sent.
C6_OrderWithinSource ==
    \A s \in Sessions : \A src \in Sources :
        OfSource(sink[s], src) \o chan[s][src] = UpTo(emitted[s][src])

C6_Witness ==
    \E s \in Sessions :
        /\ Len(Forwarded(sink[s])) = 3
        /\ Forwarded(sink[s])[1] = ForwardedEvent("log", 1)
        /\ Forwarded(sink[s])[2] = ForwardedEvent("warn", 1)
        /\ Forwarded(sink[s])[3] = ForwardedEvent("log", 2)
        /\ Len(sink[s]) > 3

\* C7: once spawned, the logger task is in its loop in every state, also
\* after sources have closed and after the session has returned, and takes
\* the branch of every source that is ready.
C7_LoggerNeverExits ==
    \A s \in Sessions :
        /\ ReachedRunning(s) => logger[s] = "looping"
        /\ logger[s] # "unspawned" =>
              /\ logger[s] = "looping"
              /\ \A src \in Sources :
                    RecvReady(chan[s][src], node[s]) => ENABLED LoggerRecv(s, src)

C7_Witness ==
    \E s \in Sessions :
        /\ pc[s] \in Terminal
        /\ \A src \in Sources : noneSeen[s][src]
        /\ logger[s] = "looping"

(* --------------------- descriptor derivation: claims ------------------- *)

\* the account-level path expected of a request: purpose'/1'/0'
ExpectedAccountPath(r) ==
    LET purpose == IF r.op = "multipath" THEN 84
                   ELSE CASE r.type = "Bip44" -> 44 [] r.type = "Bip49" -> 49
                          [] r.type = "Bip84" -> 84 [] r.type = "Bip86" -> 86
    IN <<[index |-> purpose, hardened |-> TRUE],
         [index |-> 1, hardened |-> TRUE],
         [index |-> 0, hardened |-> TRUE]>>

\* the fingerprint of the master key a key text encodes
SuppliedFingerprint(r) == XpubIdentifier([id |-> r.key.id, child |-> <<>>])

BranchOf(keychain) == IF keychain = "external" THEN 0 ELSE 1

\* C8: generate_multipath_descriptor with a script type other than 84
\* returns the only-BIP84 error and builds nothing, whatever the key text.
C8_NonBip84Rejected ==
    (req.op = "multipath" /\ req.type # 84) =>
        (resp = ErrOnlyBip84 /\ built = NoKeys)

C8_Witness ==
    /\ req.op = "multipath" /\ req.type = 86 /\ req.key.enc = "bad"
    /\ resp = ErrOnlyBip84

\* C9: every descriptor key built by a successful derivation has the origin
\* (fingerprint of the supplied key, account path of the type), the single
\* unhardened branch step 0 (external) or 1 (internal) as its path and an
\* unhardened wildcard; the fingerprint of the response is that of the origin.
C9_OriginIsAccountLevel ==
    (req.op # "none" /\ resp.ok) =>
        \A keychain \in {"external", "internal"} :
            /\ built[keychain] # <<>>
            /\ \A i \in DOMAIN built[keychain] :
                 LET k == built[keychain][i]
                     branch == [index |-> BranchOf(keychain), hardened |-> FALSE]
                 IN /\ k.origin = <<SuppliedFingerprint(req), ExpectedAccountPath(req)>>
                    /\ k.derivation_path = <<branch>>
                    /\ k.wildcard = "Unhardened"
                    /\ resp.fingerprint = fingerprint_to_string(k.origin[1])
                    /\ \A j \in DOMAIN k.origin[2] : k.origin[2][j] # branch

C9_Witness ==
    /\ req.op = "from_key" /\ req.type = "Bip86" /\ req.key.id = MaxKeys
    /\ resp.ok
    /\ Len(built.external) = 2 /\ Len(built.internal) = 2
    /\ resp.internal.public.key.path = <<Seg(1, "")>>

\* C10 (as claimed): a well-formed key text of either form is accepted; the
\* public descriptor is there for both keychains, the private one exactly
\* when the key text was a private key.
C10_PrivateAndPublicKeysAccepted ==
    (req.op = "from_key" /\ req.key.enc = "ok") =>
        /\ resp.ok
        /\ \A keychain \in {"external", "internal"} :
              /\ "public" \in DOMAIN resp[keychain]
              /\ ("private" \in DOMAIN resp[keychain])
                    <=> (req.key.version \in {"xprv", "tprv"})

\* the network kind a Network value stands for: main chain or a test chain
NetworkKindOf(network) == IF network = "bitcoin" THEN "Main" ELSE "Test"

\* the network tag the version bytes of a key text carry
NetworkTagOf(key) == IF key.version \in {"xprv", "xpub"} THEN "Main" ELSE "Test"

\* C11 (as claimed): a key whose network tag differs from the network
\* argument makes both derivations return an error with no descriptor
\* built, and the network of a successful response is the key's network.
C11_NetworkMustMatch ==
    (req.op # "none") =>
        /\ (NetworkTagOf(req.key) # NetworkKindOf(req.network))
              => (~resp.ok /\ built = NoKeys)
        /\ resp.ok => NetworkKindOf(resp.network) = NetworkTagOf(req.key)

\* the purpose number and the wrapper the claim gives each script type
ExpectedPurpose(ty) ==
    CASE ty = "Bip44" -> 44 [] ty = "Bip49" -> 49 [] ty = "Bip84" -> 84 [] ty = "Bip86" -> 86

ExpectedWrapper(ty) ==
    CASE ty = "Bip44" -> "pkh" [] ty = "Bip49" -> "sh(wpkh"
      [] ty = "Bip84" -> "wpkh" [] ty = "Bip86" -> "tr"

\* the coin type of every account path
CoinType == 1

ExpectedAccountText(ty) ==
    <<Seg(ExpectedPurpose(ty), "'"), Seg(CoinType, "'"), Seg(0, "'")>>

\* the descriptor texts of a successful response
TextsOf(r, rs) ==
    IF r.op = "multipath" THEN {rs.external, rs.internal}
    ELSE {rs.external.public, rs.external.private,
          rs.internal.public, rs.internal.private}

\* C12: every descriptor text of a successful derivation has the wrapper and
\* the account path purpose'/coin'/0' of its script type (44 pkh, 49
\* sh(wpkh), 84 wpkh, 86 tr without a script tree), the same in the public
\* and the private text of both keychains.
C12_TypeMapping ==
    (req.op # "none" /\ resp.ok) =>
        LET ty == IF req.op = "multipath" THEN "Bip84" ELSE req.type IN
        \A d \in TextsOf(req, resp) :
            /\ d.wrapper = ExpectedWrapper(ty)
            /\ d.key.origin_path = ExpectedAccountText(ty)
            /\ d.tree = <<>>

C12_Witness ==
    /\ req.op = "from_key" /\ req.type = "Bip49" /\ resp.ok
    /\ resp.internal.private.wrapper = "sh(wpkh"
    /\ resp.internal.private.key.key.version = "tprv"
    /\ resp.external.public.key.origin_path[1] = Seg(49, "'")

\* the error values key parsing failures are returned as
InvalidKeyEncoding == {Err("InvalidXprv", "Invalid xprv"), Err("InvalidXpub", "Invalid xpub")}

\* C13 (as claimed): a malformed key text makes either derivation return
\* the invalid-key error, with no descriptor key built for any keychain.
C13_MalformedAlwaysInvalidKey ==
    (req.op # "none" /\ req.key.enc = "bad") =>
        (resp \in InvalidKeyEncoding /\ built = NoKeys)

\* C13 (amended): a malformed key text makes deriveFromKey, and
\* deriveMultipath when its script type is 84, return the invalid-key
\* error, with no descriptor key built for any keychain.
C13_MalformedKeyRejected ==
    (req.op # "none" /\ req.key.enc = "bad"
        /\ (req.op = "multipath" => req.type = 84)) =>
        (resp \in InvalidKeyEncoding /\ built = NoKeys)

C13_Witness ==
    /\ req.op = "from_key" /\ req.key.enc = "bad" /\ req.key.version = "tprv"
    /\ resp = Err("InvalidXprv", "Invalid xprv")
    /\ built = NoKeys

\* C15: the subscriber is installed before the node and logger tasks are
\* spawned; a session called after another one has installed it fails at
\* that step with the set-global-default error, spawns nothing, never
\* awaits the update and leaves the wallet alone; so at most one session
\* of the process ever reaches Running.
C15_OneSessionPerProcess ==
    /\ \A s \in Sessions :
          (node[s] # "unspawned" \/ logger[s] # "unspawned") => subscriberInstalled
    /\ \A s \in Sessions :
          (pc[s] \notin {"idle", "Starting"}
             /\ \E t \in Sessions : t < s /\ ReachedRunning(t)) =>
              /\ pc[s] = "Failed"
              /\ err[s] = ErrSetGlobalDefault
              /\ phases[s] = <<"Starting", "Failed">>
              /\ node[s] = "unspawned" /\ logger[s] = "unspawned"
              /\ awaits[s] = 0 /\ applies[s] = 0
              /\ s \notin Range(wallet)
    /\ Cardinality({s \in Sessions : ReachedRunning(s)}) <= 1

C15_Witness ==
    \E s \in Sessions :
        /\ s > 1 /\ ReachedRunning(1) /\ pc[1] = "Completed"
        /\ pc[s] = "Failed" /\ err[s] = ErrSetGlobalDefault
        /\ logger[s] = "unspawned"

====
